---- MODULE Spec2Model ----
(***************************************************************************)
(* Moodbot (src/moodbot.py): a Telegram bot that classifies the sentiment  *)
(* of group messages, stores every classified message in SQLite, buckets   *)
(* the sentiments per day in memory, alerts an admin group about strongly  *)
(* negative messages and records the admins' feedback on those alerts.     *)
(*                                                                         *)
(* All handlers run on one asyncio event loop: a handler runs without      *)
(* interruption from one `await` to the next.  The sqlite3 calls, the      *)
(* transformers pipeline and the text preprocessing are synchronous, so a  *)
(* handler's code between two awaits is one atomic action here.            *)
(*                                                                         *)
(* Strings are sequences of tokens.  Scores are hundredths (0.6 is 60).    *)
(***************************************************************************)
EXTENDS Integers, Sequences, FiniteSets, Bags, TLC

VARIABLES
    now,            \* the wall clock, as a day number (datetime.now())
    store,          \* table sentiment_data: the rows, in insertion order
    messages_data,  \* defaultdict(list): day -> sentiments of that day
    alerts,         \* the alert messages sent to the admin group, in order
    fbs,            \* the handle_feedback coroutines in flight (a bag)
    hist,           \* per alert: the row line 210 inserted before it, the
                    \* interactions handled, the rows they updated
    chart,          \* mood_summary.png: the series of the last chart saved
    reports,        \* the daily summaries sent to the admin group, in order
    sched,          \* schedule_daily_summary: where its loop stands, next_run
    input           \* a text, and how often preprocess_text was applied to it

vars ==
    <<now, store, messages_data, alerts, fbs, hist, chart, reports, sched,
      input>>

(***************************************************************************)
(* Bounds of the model.                                                    *)
(***************************************************************************)
MaxPresses == 2     \* button presses handled in a run
MaxDay == 1         \* the clock runs over the days 0..MaxDay
MaxBucket == 3      \* messages of one day, where a day's bucket is drawn
MaxLen == 3         \* characters of a text, where a text is drawn
MaxPasses == 2      \* applications of preprocess_text to a text

Days == 0..MaxDay

\* The values uuid.uuid4() can draw.  Two values, so that a draw can repeat;
\* the PRIMARY KEY then bounds the table, and with it the aggregator.
Ids == {"u1", "u2"}

None == "None"

(***************************************************************************)
(* Text.                                                                   *)
(***************************************************************************)
\* A text is a sequence of characters, a character one of
\*   "fa"    a Persian letter              "lat"   a Latin letter
\*   "dig"   a Persian digit, U+06F0-06F9  "http"  the letters http
\*   "adig"  an Arabic digit, U+0660-0669  "at"    @
\*   "sp"    a whitespace character         "hash"  #
\*   "pun"   an ASCII punctuation mark      "emoji" an emoji
Alphabet ==
    {"fa", "dig", "adig", "sp", "lat", "http", "at", "hash", "pun", "emoji"}

NonSpace == Alphabet \ {"sp"}                          \* \S
Word == {"fa", "dig", "adig", "lat", "http"}           \* \w
Digit == {"dig", "adig"}                               \* \d
Arabic == {"fa", "dig", "adig"}                        \* \u0600-\u06FF

\* event.raw_text of the modelled events: an empty text, and a Persian word
\* followed by a space and a Latin letter.
RawTexts == { <<>>, <<"fa", "sp", "lat">> }

\* s without its longest prefix of characters of class
RECURSIVE SkipRun(_, _)
SkipRun(s, class) ==
    IF s # <<>> /\ s[1] \in class THEN SkipRun(Tail(s), class) ELSE s

\* re.sub(head + class + "+", "", s): every head character that at least
\* one character of class follows goes, with the run of class after it
RECURSIVE RemoveRuns(_, _, _)
RemoveRuns(s, head, class) ==
    IF s = <<>> THEN <<>>
    ELSE IF s[1] = head /\ Len(s) >= 2 /\ s[2] \in class
    THEN RemoveRuns(SkipRun(Tail(s), class), head, class)
    ELSE <<s[1]>> \o RemoveRuns(Tail(s), head, class)

\* re.sub("[...]", "", s)
Remove(s, class) == SelectSeq(s, LAMBDA c : c \notin class)

\* normalizer.normalize(text) of hazm on a text of Persian letters, digits
\* and single spaces: digits become Persian digits.
normalize(s) == [i \in 1..Len(s) |-> IF s[i] = "adig" THEN "dig" ELSE s[i]]

RECURSIVE rstrip(_)
rstrip(s) ==
    IF s # <<>> /\ s[Len(s)] = "sp" THEN rstrip(SubSeq(s, 1, Len(s) - 1)) ELSE s

RECURSIVE lstrip(_)
lstrip(s) ==
    IF s # <<>> /\ s[1] = "sp" THEN lstrip(Tail(s)) ELSE s

\* re.sub(r"\s+", " ", text): every run of whitespace becomes one space
RECURSIVE collapse(_)
collapse(s) ==
    IF s = <<>> THEN <<>>
    ELSE IF s[1] = "sp" THEN <<"sp">> \o collapse(lstrip(s))
    ELSE <<s[1]>> \o collapse(Tail(s))

\* lines 138-146, step by step
preprocess_text(text) ==
    LET noUrl == RemoveRuns(text, "http", NonSpace)
        noMention == RemoveRuns(noUrl, "at", Word)
        noHashtag == RemoveRuns(noMention, "hash", Word)
        noEmoji == Remove(noHashtag, {"emoji"})
        noLatin == Remove(noEmoji, {"lat", "http"})
        inRange == Remove(noLatin, Alphabet \ (Arabic \cup {"sp"}))
        stripped == rstrip(lstrip(collapse(inRange)))
    IN  Remove(normalize(stripped), Digit)

NoText == [value |-> <<>>, passes |-> 0]

\* message_text = preprocess_text(...) once more
Preprocess ==
    /\ input.passes < MaxPasses
    /\ input' = [value |-> preprocess_text(input.value),
                 passes |-> input.passes + 1]
    /\ UNCHANGED <<now, store, messages_data, alerts, fbs, hist, chart,
                   reports, sched>>

(***************************************************************************)
(* The classifier.                                                         *)
(***************************************************************************)
Threshold == 60     \* 0.6, in hundredths

Raise == [raised |-> TRUE, label |-> None, score |-> 0]

\* What sentiment_pipeline(text) can do: return a label with a score, or
\* raise.  The model is trained with the labels HAPPY and SAD; "OTHER" stands
\* for any other label.
PipelineOutcomes ==
    { [raised |-> FALSE, label |-> "SAD", score |-> Threshold],
      [raised |-> FALSE, label |-> "SAD", score |-> Threshold + 1],
      [raised |-> FALSE, label |-> "HAPPY", score |-> Threshold + 1],
      [raised |-> FALSE, label |-> "OTHER", score |-> Threshold + 1],
      Raise }

\* An except branch that reports the failed message as neutral
analyze_sentiment_neutral(result) ==
    IF result.raised THEN <<"NEUTRAL", 0>>
    ELSE IF result.label = "HAPPY" THEN <<"POSITIVE", result.score>>
    ELSE IF result.label = "SAD" THEN <<"NEGATIVE", result.score>>
    ELSE <<"NEUTRAL", result.score>>

analyze_sentiment(result) ==
    IF result.raised THEN <<"ERROR", 0>>
    ELSE IF result.label = "HAPPY" THEN <<"POSITIVE", result.score>>
    ELSE IF result.label = "SAD" THEN <<"NEGATIVE", result.score>>
    ELSE <<"NEUTRAL", result.score>>

(***************************************************************************)
(* The record store (SQLite table sentiment_data, id TEXT PRIMARY KEY).    *)
(***************************************************************************)
StoreIds(st) == { st[i].id : i \in 1..Len(st) }

\* A table created without the PRIMARY KEY
InsertCommitsNoKey(st, unique_id, db_ok) == db_ok

\* Whether the INSERT of save_message_data commits: the database must be
\* reachable and the PRIMARY KEY constraint must hold; otherwise
\* cursor.execute raises and nothing is written.
InsertCommits(st, unique_id, db_ok) ==
    db_ok /\ unique_id \notin StoreIds(st)

\* The row the INSERT writes; timestamp defaults to CURRENT_TIMESTAMP.
save_message_data(st, unique_id, message_text, sentiment, score, label, ts) ==
    Append(st, [id |-> unique_id, message_text |-> message_text,
                sentiment |-> sentiment, score |-> score,
                label |-> label, timestamp |-> ts])

\* str(uuid.uuid4()): the text of an id, as a payload or a query carries it
IdText(unique_id) == << unique_id >>

\* An UPDATE without its WHERE clause
MatchesAnyRow(row, id_text) == TRUE

\* WHERE id = ?, the parameter being a text
Matches(row, id_text) == IdText(row.id) = id_text

\* INSERT OR REPLACE INTO sentiment_data (id, label): the row is written
\* anew, and its other columns fall back to their defaults
update_by_replace(st, id_text, label) ==
    [i \in 1..Len(st) |->
        IF Matches(st[i], id_text)
        THEN [id |-> st[i].id, message_text |-> <<>>, sentiment |-> None,
              score |-> 0, label |-> label, timestamp |-> now]
        ELSE st[i]]

\* UPDATE sentiment_data SET label = ? WHERE id = ?
update_feedback_in_dataset(st, id_text, label) ==
    [i \in 1..Len(st) |->
        IF Matches(st[i], id_text) THEN [st[i] EXCEPT !.label = label] ELSE st[i]]

\* The rows the UPDATE matches (cursor.rowcount)
RowCount(st, id_text) ==
    Cardinality({ i \in 1..Len(st) : Matches(st[i], id_text) })

\* What update_feedback_in_dataset hands back to its caller: the function
\* has no return statement and raises nothing when no row matches.
UpdateResult(st, id_text) == None

(***************************************************************************)
(* The daily aggregator.                                                   *)
(***************************************************************************)
\* A test that finds every key, as when the bucket is read without it
HasKeyAlways(md, day) == TRUE

\* day in messages_data
HasKey(md, day) == day \in DOMAIN md

\* messages_data[day] on a defaultdict(list): a missing key is inserted with
\* an empty list
GetItem(md, day) ==
    IF day \in DOMAIN md THEN [value |-> md[day], messages_data |-> md]
    ELSE [value |-> <<>>, messages_data |-> md @@ (day :> <<>>)]

\* An aggregator that keeps the last sentiment of a day only
RecordSentimentLast(md, day, sentiment) ==
    [d \in DOMAIN md \cup {day} |-> IF d = day THEN <<sentiment>> ELSE md[d]]

\* messages_data[today].append(sentiment) on a defaultdict(list)
RecordSentiment(md, day, sentiment) ==
    IF day \in DOMAIN md
    THEN [md EXCEPT ![day] = Append(@, sentiment)]
    ELSE md @@ (day :> <<sentiment>>)

(***************************************************************************)
(* Python floats.  The chart's percentages are floats: int / int is the    *)
(* correctly rounded quotient, float * int and float + float are the       *)
(* correctly rounded product and sum (round to nearest, ties to even).     *)
(* The values here stay far from the subnormal and the overflow range.     *)
(***************************************************************************)
Precision == 53     \* bits in the significand of a Python float (IEEE-754 binary64)
LimbBits == 15      \* numerals are added and multiplied 15 bits at a time
GuardLimbs == 5     \* limbs of quotient after the binary point, before rounding

\* A float is zero or m * 2^e, m a numeral of exactly Precision bits whose
\* first bit is 1.  A numeral is a sequence of bits, most significant first.
Zero == [m |-> <<>>, e |-> 0]

Zeros(k) == [i \in 1..k |-> 0]

Base == 2 ^ LimbBits

\* The k-bit numeral of v < 2^k
ToBits(v, k) == [i \in 1..k |-> (v \div (2 ^ (k - i))) % 2]

RECURSIVE Bits(_)
Bits(n) == IF n = 0 THEN <<>> ELSE Append(Bits(n \div 2), n % 2)

\* The value of a numeral of at most LimbBits bits
RECURSIVE Value(_)
Value(b) ==
    IF b = <<>> THEN 0 ELSE 2 * Value(SubSeq(b, 1, Len(b) - 1)) + b[Len(b)]

\* The lowest limb of a numeral, and the numeral above it
Low(b) ==
    Value(SubSeq(b, IF Len(b) > LimbBits THEN Len(b) - LimbBits + 1 ELSE 1,
                 Len(b)))

High(b) == SubSeq(b, 1, Len(b) - LimbBits)

Strip(b) ==
    IF \A i \in 1..Len(b) : b[i] = 0 THEN <<>>
    ELSE LET f == CHOOSE i \in 1..Len(b) :
                     b[i] = 1 /\ \A j \in 1..(i - 1) : b[j] = 0
         IN  SubSeq(b, f, Len(b))

\* a + b + carry, limb by limb
RECURSIVE AddLimbs(_, _, _)
AddLimbs(a, b, carry) ==
    IF a = <<>> /\ b = <<>> THEN Bits(carry)
    ELSE LET s == Low(a) + Low(b) + carry
         IN  AddLimbs(High(a), High(b), s \div Base)
                \o ToBits(s % Base, LimbBits)

AddBits(a, b) == Strip(AddLimbs(a, b, 0))

\* b * k + carry for a small k, limb by limb
RECURSIVE MulLimbs(_, _, _)
MulLimbs(b, k, carry) ==
    IF b = <<>> THEN Bits(carry)
    ELSE LET p == Low(b) * k + carry
         IN  MulLimbs(High(b), k, p \div Base) \o ToBits(p % Base, LimbBits)

Times100(b) == Strip(MulLimbs(b, 100, 0))

\* (a * Base^k) mod d
RECURSIVE LimbRem(_, _, _)
LimbRem(a, d, k) ==
    IF k = 0 THEN a % d ELSE (LimbRem(a, d, k - 1) * Base) % d

\* floor(a * Base^GuardLimbs / d) as a numeral, by long division in base
\* Base, and whether the division is inexact.
Quotient(a, d) ==
    LET limb(k) == ToBits((LimbRem(a, d, k - 1) * Base) \div d, LimbBits)
        RECURSIVE limbs(_)
        limbs(k) == IF k = 0 THEN Bits(a \div d) ELSE limbs(k - 1) \o limb(k)
    IN  [q |-> limbs(GuardLimbs), inexact |-> LimbRem(a, d, GuardLimbs) # 0]

\* Round b * 2^e to the nearest float, ties to even.
Round(b0, e0) ==
    LET b == Strip(b0)
        n == Len(b)
    IN  IF n = 0 THEN Zero
        ELSE IF n <= Precision
        THEN [m |-> b \o Zeros(Precision - n), e |-> e0 - (Precision - n)]
        ELSE LET keep == SubSeq(b, 1, Precision)
                 half == b[Precision + 1] = 1
                 rest == \E i \in (Precision + 2)..n : b[i] = 1
                 up == half /\ (rest \/ keep[Precision] = 1)
                 m1 == IF up THEN AddBits(keep, <<1>>) ELSE keep
                 e1 == e0 + (n - Precision)
             IN  IF Len(m1) > Precision
                 THEN [m |-> SubSeq(m1, 1, Precision), e |-> e1 + 1]
                 ELSE [m |-> m1, e |-> e1]

\* float(n)
Float(n) == Round(Bits(n), 0)

\* a / d for ints a >= 0, d > 0: the quotient, correctly rounded.
FDiv(a, d) ==
    LET r == Quotient(a, d)
    IN  Round(Append(r.q, IF r.inexact THEN 1 ELSE 0),
              -(GuardLimbs * LimbBits + 1))

\* x * 100
FMul100(x) == IF x = Zero THEN Zero ELSE Round(Times100(x.m), x.e)

\* x + y
FAdd(x, y) ==
    IF x = Zero THEN y
    ELSE IF y = Zero THEN x
    ELSE LET lo == IF x.e < y.e THEN x.e ELSE y.e
         IN  Round(AddBits(x.m \o Zeros(x.e - lo), y.m \o Zeros(y.e - lo)), lo)

(***************************************************************************)
(* The mood chart.                                                         *)
(***************************************************************************)
\* sorted(daily_data.keys())
RECURSIVE sorted(_)
sorted(S) ==
    IF S = {} THEN <<>>
    ELSE LET x == CHOOSE y \in S : \A z \in S : y <= z
         IN  <<x>> \o sorted(S \ {x})

\* sum(1 for s in sentiments if s == sentiment)
Count(sentiments, sentiment) ==
    Cardinality({ i \in DOMAIN sentiments : sentiments[i] = sentiment })

\* neu_count = total - pos_count - neg_count
Residual(sentiments) ==
    Len(sentiments) - Count(sentiments, "POSITIVE")
                    - Count(sentiments, "NEGATIVE")

\* count / total * 100
Percentage(count, total) == FMul100(FDiv(count, total))

NoChart ==
    [raised |-> FALSE, dates |-> <<>>,
     positive |-> <<>>, neutral |-> <<>>, negative |-> <<>>]

\* The three series plotted over the sorted dates and saved to save_path.
\* A date with an empty list divides by zero.
generate_mood_chart(daily_data) ==
    LET dates == sorted(DOMAIN daily_data)
        series(count(_)) ==
            [i \in 1..Len(dates) |->
                Percentage(count(daily_data[dates[i]]),
                           Len(daily_data[dates[i]]))]
        pos_count(sentiments) == Count(sentiments, "POSITIVE")
        neg_count(sentiments) == Count(sentiments, "NEGATIVE")
    IN  IF \E d \in DOMAIN daily_data : Len(daily_data[d]) = 0
        THEN [NoChart EXCEPT !.raised = TRUE]
        ELSE [raised |-> FALSE, dates |-> dates,
              positive |-> series(pos_count),
              neutral |-> series(Residual),
              negative |-> series(neg_count)]

(***************************************************************************)
(* Alerts and their buttons.                                               *)
(***************************************************************************)
\* The texts "label_negative" and "label_not_negative", cut into the pieces
\* that tell one from a part of the other
label_negative == << "label_", "negative" >>
label_not_negative == << "label_", "not_", "negative" >>

\* data=f"label_negative:{unique_id}" / f"label_not_negative:{unique_id}"
ButtonData(action, unique_id) == action \o << ":" >> \o IdText(unique_id)

AlertMessage(score, message_text, unique_id) ==
    [pct |-> score,     \* score * 100: hundredths are percent
     text |-> message_text,
     buttons |-> << ButtonData(label_negative, unique_id),
                    ButtonData(label_not_negative, unique_id) >>,
     status |-> "sending"]

\* The comparison written with >=
ShouldAlertAtLeast(sentiment, score) ==
    sentiment = "NEGATIVE" /\ score >= Threshold

\* if sentiment == "NEGATIVE" and score > 0.6
ShouldAlert(sentiment, score) == sentiment = "NEGATIVE" /\ score > Threshold

(***************************************************************************)
(* The process.  client.loop.run_until_complete(schedule_daily_summary())  *)
(* runs the event loop until the scheduler returns or raises; the          *)
(* scheduler never returns, and when it raises the program ends, and its   *)
(* handlers with it.                                                       *)
(***************************************************************************)
Running == sched.pc # "dead"

(***************************************************************************)
(* Events.                                                                 *)
(***************************************************************************)
group_id == "group"                 \* the group where the bot is active
admin_group_id == "admin_group"     \* the admin group, where alerts go

Chats == {"group", "admin_group", "private"}

\* event.is_group: true of every group chat, the monitored one or not
is_group(chat) == chat \in {"group", "admin_group"}

\* if event.is_group and event.raw_text
PassesFilter(chat, raw_text) == is_group(chat) /\ raw_text # <<>>

(***************************************************************************)
(* mood_analyzer: the handler of a NewMessage event.  Its only await is    *)
(* the send of the alert, its last statement.                              *)
(***************************************************************************)
\* A run of mood_analyzer (lines 207-228, up to its await) is a record of
\* the stage it has reached, its locals, and the store, the aggregator and
\* the alerts as it leaves them.  Stages: RECEIVED (stopped by the filter),
\* CLASSIFIED, PERSISTED, ALERTED.
Received ==
    [stage |-> "RECEIVED", sentiment |-> None, score |-> 0,
     message_text |-> <<>>, store |-> store,
     messages_data |-> messages_data, alerts |-> alerts, hist |-> hist]

\* lines 208-209
Classify(raw_text, result) ==
    [Received EXCEPT !.stage = "CLASSIFIED",
                     !.message_text = preprocess_text(raw_text),
                     !.sentiment = analyze_sentiment(result)[1],
                     !.score = analyze_sentiment(result)[2]]

\* A handler that appends to the bucket of the first day it knows
PersistFirstDay(m, unique_id) ==
    [m EXCEPT !.stage = "PERSISTED",
              !.store = save_message_data(m.store, unique_id, m.message_text,
                                          m.sentiment, m.score, None, now),
              !.messages_data =
                  RecordSentiment(m.messages_data,
                      IF DOMAIN m.messages_data = {} THEN now
                      ELSE CHOOSE d \in DOMAIN m.messages_data :
                              \A x \in DOMAIN m.messages_data : d <= x,
                      m.sentiment)]

\* lines 210-213, the INSERT having committed: the row, then today's bucket
Persist(m, unique_id) ==
    [m EXCEPT !.stage = "PERSISTED",
              !.store = save_message_data(m.store, unique_id, m.message_text,
                                          m.sentiment, m.score, None, now),
              !.messages_data = RecordSentiment(m.messages_data, now,
                                                m.sentiment)]

\* A handler that alerts on every message it has saved
AlertAlways(m, unique_id) ==
    [m EXCEPT !.stage = "ALERTED",
              !.alerts = Append(m.alerts, AlertMessage(m.score,
                                    m.message_text, unique_id)),
              !.hist = Append(m.hist, [row |-> Len(m.store),
                                       handled |-> 0, updated |-> 0])]

\* lines 215-228: the alert, handed to client.send_message
Alert(m, unique_id) ==
    IF ShouldAlert(m.sentiment, m.score)
    THEN [m EXCEPT !.stage = "ALERTED",
                   !.alerts = Append(m.alerts, AlertMessage(m.score,
                                         m.message_text, unique_id)),
                   !.hist = Append(m.hist, [row |-> Len(m.store),
                                            handled |-> 0, updated |-> 0])]
    ELSE m

\* A handler that goes on after a failed INSERT
AfterSaveSwallowed(m, unique_id, committed) ==
    Alert(IF committed THEN Persist(m, unique_id)
          ELSE [m EXCEPT !.stage = "PERSISTED"], unique_id)

\* Line 210 has no try: when save_message_data raises, the handler ends.
AfterSave(m, unique_id, committed) ==
    IF committed THEN Alert(Persist(m, unique_id), unique_id) ELSE m

mood_analyzer_run(chat, raw_text, result, unique_id, db_ok) ==
    IF ~PassesFilter(chat, raw_text) THEN Received
    ELSE AfterSave(Classify(raw_text, result), unique_id,
                   InsertCommits(store, unique_id, db_ok))

\* The NewMessage events and what the classifier, uuid4 and the database do
\* while one is handled.  An event the filter stops reaches none of the
\* three, so nothing is drawn for them.
EventInputs ==
    { e \in [chat : Chats, raw_text : RawTexts, result : PipelineOutcomes,
             unique_id : Ids, db_ok : BOOLEAN] :
        PassesFilter(e.chat, e.raw_text) }
    \cup
    { e \in [chat : Chats, raw_text : RawTexts, result : {Raise},
             unique_id : {None}, db_ok : {TRUE}] :
        ~PassesFilter(e.chat, e.raw_text) }

RunOn(e) == mood_analyzer_run(e.chat, e.raw_text, e.result, e.unique_id, e.db_ok)

mood_analyzer ==
    /\ Running
    /\ \E r \in { RunOn(e) : e \in EventInputs } :
              /\ store' = r.store
              /\ messages_data' = r.messages_data
              /\ alerts' = r.alerts
              /\ hist' = r.hist
    /\ UNCHANGED <<now, fbs, chart, reports, sched, input>>

\* await client.send_message(admin_group_id, ...) returns or raises; an alert
\* that was delivered shows its two buttons in the admin group.
SendDone ==
    \E i \in 1..Len(alerts), delivered \in BOOLEAN :
        /\ Running
        /\ alerts[i].status = "sending"
        /\ alerts' = [alerts EXCEPT ![i].status =
                          IF delivered THEN "shown" ELSE "failed"]
        /\ UNCHANGED <<now, store, messages_data, fbs, hist, chart, reports,
                       sched, input>>

(***************************************************************************)
(* handle_feedback: the handler of a CallbackQuery event.                  *)
(***************************************************************************)
BadByte == "0xFF"   \* a byte sequence that is not UTF-8

\* Callback data that no button of this bot carries: no colon, not UTF-8,
\* an unknown action, and the data of a button for any id.
ForgedData ==
    { <<"x">>, <<BadByte>> }
    \cup { << "x", ":" >> \o IdText(u) : u \in Ids }
    \cup { ButtonData(a, u) : a \in {label_negative, label_not_negative},
                              u \in Ids }

\* event.data.decode("utf-8") raises UnicodeDecodeError
DecodeRaises(data) == \E i \in 1..Len(data) : data[i] = BadByte

\* word in data: word is a substring of data
Contains(data, word) ==
    \E i \in 1..(Len(data) - Len(word) + 1) :
        SubSeq(data, i, i + Len(word) - 1) = word

\* The test written as "negative" in data
FeedbackLabelByWord(data) ==
    IF Contains(data, << "negative" >>) THEN "negative" ELSE "not_negative"

\* label = "negative" if "label_negative" in data else "not_negative"
FeedbackLabel(data) ==
    IF Contains(data, label_negative) THEN "negative" ELSE "not_negative"

FirstColon(data) ==
    IF Contains(data, << ":" >>)
    THEN CHOOSE i \in 1..Len(data) :
            data[i] = ":" /\ \A j \in 1..(i - 1) : data[j] # ":"
    ELSE 0

\* data.split(":", 1)
Split1(data) ==
    IF FirstColon(data) = 0 THEN << data >>
    ELSE << SubSeq(data, 1, FirstColon(data) - 1),
            SubSeq(data, FirstColon(data) + 1, Len(data)) >>

\* What one run of handle_feedback (lines 236-241, up to the await of
\* event.answer) does in the current state.  msg is the alert whose button
\* was pressed (0: the query does not come from an alert of this run).
\* pc "raised": an exception ended the handler before event.answer.
handle_feedback_run(data, msg, db_ok) ==
    LET label == FeedbackLabel(data)
        unique_id == Split1(data)[2]
        out == [pc |-> "raised", label |-> None, unique_id |-> <<>>,
                rowcount |-> 0, result |-> None, answered |-> FALSE,
                store |-> store, hist |-> hist]
    IN  IF DecodeRaises(data) THEN out          \* UnicodeDecodeError, line 236
        ELSE IF Len(Split1(data)) < 2 THEN out  \* IndexError, line 238
        ELSE IF ~db_ok                          \* sqlite3 raises, line 240
        THEN [out EXCEPT !.label = label, !.unique_id = unique_id]
        ELSE [pc |-> "answer", label |-> label, unique_id |-> unique_id,
              rowcount |-> RowCount(store, unique_id),
              result |-> UpdateResult(store, unique_id),
              answered |-> TRUE,
              store |-> update_feedback_in_dataset(store, unique_id, label),
              hist |-> IF msg = 0 THEN hist
                       ELSE [hist EXCEPT ![msg].handled = @ + 1,
                                         ![msg].updated =
                                             @ + RowCount(store, unique_id)]]

\* The CallbackQuery events that can arrive in the current state: a press of
\* a button of an alert shown in the admin group, or forged data.
CallbackInputs ==
    { [data |-> alerts[i].buttons[b], msg |-> i, db_ok |-> ok] :
        i \in { j \in 1..Len(alerts) : alerts[j].status = "shown" },
        b \in 1..2, ok \in BOOLEAN }
    \cup [data : ForgedData, msg : {0}, db_ok : BOOLEAN]

FeedbackOn(c) == handle_feedback_run(c.data, c.msg, c.db_ok)

RECURSIVE Handled(_)
Handled(h) == IF h = <<>> THEN 0 ELSE h[1].handled + Handled(Tail(h))

\* A handler suspended in the await of event.answer, and the alert its
\* event belongs to
Coroutine(msg) == SetToBag({ msg })

handle_feedback ==
    /\ Running
    /\ \E c \in CallbackInputs : \E r \in { FeedbackOn(c) } :
              /\ c.msg # 0 => Handled(hist) < MaxPresses
              /\ store' = r.store
              /\ hist' = r.hist
              /\ fbs' = IF r.pc = "raised" \/ c.msg = 0 THEN fbs
                        ELSE fbs (+) Coroutine(c.msg)
    /\ UNCHANGED <<now, messages_data, alerts, chart, reports, sched, input>>

\* The queries that Telegram makes when an admin presses a button
ButtonPresses == { c \in CallbackInputs : c.msg # 0 }

\* handle_feedback on a query that comes from a button of a shown alert
handle_button ==
    /\ Running
    /\ \E c \in ButtonPresses : \E r \in { FeedbackOn(c) } :
              /\ Handled(hist) < MaxPresses
              /\ store' = r.store
              /\ hist' = r.hist
              /\ fbs' = IF r.pc = "raised" THEN fbs
                        ELSE fbs (+) Coroutine(c.msg)
    /\ UNCHANGED <<now, messages_data, alerts, chart, reports, sched, input>>

\* The rest of a handler (lines 241-243): event.answer returns, then
\* event.get_message(), then msg.delete().  Each of the three awaits can
\* raise (get_message gives None once the message is gone, and msg.delete()
\* then raises AttributeError), which ends the handler with the alert left
\* as it is; otherwise the alert message is deleted.  None of this touches
\* the store.  A query that came from no alert of this run retracts a message
\* outside the model, so its handler is not kept in fbs.
Retract ==
    \E msg \in BagToSet(fbs), ok \in BOOLEAN :
        /\ Running
        /\ fbs' = fbs (-) Coroutine(msg)
        /\ alerts' = IF ok THEN [alerts EXCEPT ![msg].status = "deleted"]
                     ELSE alerts
        /\ UNCHANGED <<now, store, messages_data, hist, chart, reports,
                       sched, input>>

(***************************************************************************)
(* The clock.  The process starts at any time of a day, so midnight can    *)
(* pass before the loop of the scheduler first reads the clock, and        *)
(* between that reading and the one of its first summary.  A timer that is *)
(* due fires at once and a report cycle takes less than a day: a later     *)
(* cycle starts just after midnight and sees no other midnight pass.       *)
(***************************************************************************)
TickAllowed ==
    CASE sched.pc = "loop" -> reports = <<>>
      [] sched.pc = "summary" -> reports = <<>> /\ now < sched.next_run
      [] sched.pc = "sleep" -> now < sched.next_run
      [] OTHER -> FALSE

Tick ==
    /\ TickAllowed
    /\ now < MaxDay
    /\ now' = now + 1
    /\ UNCHANGED <<store, messages_data, alerts, fbs, hist, chart, reports,
                   sched, input>>

(***************************************************************************)
(* daily_mood_summary: the report on yesterday.  Its only await is the     *)
(* send of the report, its last statement; the send can fail.              *)
(***************************************************************************)
Sentiments == {"POSITIVE", "NEUTRAL", "NEGATIVE", "ERROR"}

\* "Positive: {pos_count}\nNeutral: {neu_count}\nNegative: {neg_count}"
SummaryReport(yesterday, sentiments) ==
    [kind |-> "summary", day |-> yesterday,
     counts |-> [Positive |-> Count(sentiments, "POSITIVE"),
                 Neutral |-> Residual(sentiments),
                 Negative |-> Count(sentiments, "NEGATIVE")]]

\* "No data for {yesterday}."
NoDataReport(yesterday) ==
    [kind |-> "nodata", day |-> yesterday,
     counts |-> [Positive |-> 0, Neutral |-> 0, Negative |-> 0]]

\* A summary that renders a chart whether or not yesterday has entries
daily_mood_summary_charts(md, yesterday) ==
    [chart |-> generate_mood_chart(md), messages_data |-> md,
     sent |-> IF HasKey(md, yesterday) /\ md[yesterday] # <<>>
              THEN <<SummaryReport(yesterday, md[yesterday])>>
              ELSE <<NoDataReport(yesterday)>>]

\* The chart written, the report handed to client.send_message and the
\* aggregator after the test of line 254; a chart that raised leaves the
\* file alone and sends nothing.
daily_mood_summary_run(md, yesterday) ==
    LET tested == IF HasKey(md, yesterday) THEN GetItem(md, yesterday)
                  ELSE [value |-> <<>>, messages_data |-> md]
        c == generate_mood_chart(tested.messages_data)
        nodata == [chart |-> chart, messages_data |-> tested.messages_data,
                   sent |-> <<NoDataReport(yesterday)>>]
    IN  IF tested.value = <<>> THEN nodata
        ELSE IF c.raised THEN [nodata EXCEPT !.sent = <<>>]
        ELSE [chart |-> c, messages_data |-> tested.messages_data,
              sent |-> <<SummaryReport(yesterday, tested.value)>>]

\* await daily_mood_summary() (line 280): an exception of the chart or of
\* the send leaves the loop, which has no try.
daily_mood_summary ==
    /\ sched.pc = "summary"
    /\ \E r \in { daily_mood_summary_run(messages_data, now - 1) } :
          /\ chart' = r.chart
          /\ messages_data' = r.messages_data
          /\ \E delivered \in BOOLEAN :
                /\ reports' = reports \o
                      [i \in 1..Len(r.sent) |->
                          [report |-> r.sent[i], delivered |-> delivered]]
                /\ sched' = [sched EXCEPT !.pc =
                                IF delivered /\ r.sent # <<>>
                                THEN "sleep" ELSE "dead"]
    /\ UNCHANGED <<now, store, alerts, fbs, hist, input>>

(***************************************************************************)
(* schedule_daily_summary: the loop around daily_mood_summary.             *)
(***************************************************************************)
\* lines 276-279: now = datetime.now(); next_run is the midnight after it
schedule_daily_summary ==
    /\ sched.pc = "loop"
    /\ sched' = [pc |-> "summary", next_run |-> now + 1]
    /\ UNCHANGED <<now, store, messages_data, alerts, fbs, hist, chart,
                   reports, input>>

\* line 281: asyncio.sleep((next_run - datetime.now()).total_seconds())
\* returns when the clock has reached next_run, at once when it already has.
asyncio_sleep ==
    /\ sched.pc = "sleep"
    /\ now >= sched.next_run
    /\ sched' = [sched EXCEPT !.pc = "loop"]
    /\ UNCHANGED <<now, store, messages_data, alerts, fbs, hist, chart,
                   reports, input>>

(***************************************************************************)
(* The specification.                                                      *)
(***************************************************************************)
Init ==
    /\ now = 0
    /\ store = <<>>
    /\ messages_data = <<>>
    /\ alerts = <<>>
    /\ fbs = EmptyBag
    /\ hist = <<>>
    /\ chart = NoChart
    /\ reports = <<>>
    /\ sched = [pc |-> "loop", next_run |-> 0]
    /\ input = NoText

\* The handlers.  They read nothing the scheduler writes, so what they do is
\* checked with the scheduler left where it starts.
Next ==
    \/ mood_analyzer
    \/ SendDone
    \/ handle_feedback
    \/ Retract
    \/ Tick

Spec == Init /\ [][Next]_vars

\* The scheduler beside the ingestion of messages.  The feedback handlers
\* write labels and alert messages only, which neither of the two reads.
NextDaily ==
    \/ mood_analyzer
    \/ SendDone
    \/ schedule_daily_summary
    \/ daily_mood_summary
    \/ asyncio_sleep
    \/ Tick

SpecDaily == Init /\ [][NextDaily]_vars

\* The handlers when every query comes from a button of a shown alert
NextButtons ==
    \/ mood_analyzer
    \/ SendDone
    \/ handle_button
    \/ Retract
    \/ Tick

SpecButtons == Init /\ [][NextButtons]_vars

(***************************************************************************)
(* preprocess_text over every text of up to MaxLen characters.             *)
(***************************************************************************)
Texts == UNION { [1..n -> Alphabet] : n \in 0..MaxLen }

InitText ==
    /\ now = 0
    /\ store = <<>>
    /\ messages_data = <<>>
    /\ alerts = <<>>
    /\ fbs = EmptyBag
    /\ hist = <<>>
    /\ chart = NoChart
    /\ reports = <<>>
    /\ sched = [pc |-> "loop", next_run |-> 0]
    /\ input \in [value : Texts, passes : {0}]

NextText == Preprocess

SpecText == InitText /\ [][NextText]_vars

(***************************************************************************)
(* The daily summary over every bucket a day can leave behind: the state   *)
(* after the messages of day 0 were ingested, none of them alerted, and    *)
(* the summary run on a later day.                                         *)
(***************************************************************************)
Buckets == UNION { [1..n -> Sentiments] : n \in 1..MaxBucket }

Uuid(i) == "u" \o ToString(i)

\* The score the classifier gave an entry of the bucket: none above the
\* alert threshold.
ScoreOf(sentiment) == IF sentiment = "ERROR" THEN 0 ELSE Threshold

RECURSIVE Ingested(_, _)
Ingested(bucket, day) ==
    IF bucket = <<>> THEN [store |-> <<>>, messages_data |-> <<>>]
    ELSE LET n == Len(bucket)
             before == Ingested(SubSeq(bucket, 1, n - 1), day)
         IN  [store |-> save_message_data(before.store, Uuid(n),
                            preprocess_text(<<"fa", "sp", "lat">>),
                            bucket[n], ScoreOf(bucket[n]), None, day),
              messages_data |-> RecordSentiment(before.messages_data, day,
                                                bucket[n])]

InitShares ==
    /\ now \in 1..(MaxDay + 1)
    /\ \E bucket \in Buckets :
          /\ store = Ingested(bucket, 0).store
          /\ messages_data = Ingested(bucket, 0).messages_data
    /\ alerts = <<>>
    /\ fbs = EmptyBag
    /\ hist = <<>>
    /\ chart = NoChart
    /\ reports = <<>>
    /\ sched = [pc |-> "summary", next_run |-> now + 1]
    /\ input = NoText

NextShares == daily_mood_summary

SpecShares == InitShares /\ [][NextShares]_vars

(***************************************************************************)
(* Properties.                                                             *)
(***************************************************************************)
\* The alerts whose buttons carry unique_id
AlertsFor(unique_id) ==
    { j \in 1..Len(alerts) :
        alerts[j].buttons = << ButtonData(label_negative, unique_id),
                               ButtonData(label_not_negative, unique_id) >> }

Labels == {"negative", "not_negative"}

\* C1: a message that reaches the alert decision is alerted if and only if
\* its sentiment is NEGATIVE and its score is strictly above 0.6: one more
\* alert is handed to send_message by exactly the runs of mood_analyzer that
\* persisted such a message, and in every reachable state the stored records
\* that have an alert are exactly the NEGATIVE ones with a score above 0.6.
C1_AlertIffStronglyNegative ==
    /\ \A e \in EventInputs : \A r \in { RunOn(e) } :
              r.stage \in {"PERSISTED", "ALERTED"} =>
                 /\ (r.stage = "ALERTED" /\ Len(r.alerts) = Len(alerts) + 1)
                        <=> (r.sentiment = "NEGATIVE" /\ r.score > Threshold)
                 /\ r.stage = "PERSISTED" => r.alerts = alerts
    /\ \A i \in 1..Len(store) :
          (AlertsFor(store[i].id) # {})
              <=> (store[i].sentiment = "NEGATIVE" /\ store[i].score > Threshold)

\* A NEGATIVE record at exactly 0.6 without an alert beside a NEGATIVE
\* record above 0.6 with one
C1_Witness ==
    \E i, j \in 1..Len(store) :
        /\ store[i].sentiment = "NEGATIVE" /\ store[i].score = Threshold
        /\ AlertsFor(store[i].id) = {}
        /\ store[j].sentiment = "NEGATIVE" /\ store[j].score > Threshold
        /\ AlertsFor(store[j].id) # {}

\* C2: when the INSERT of save_message_data fails, the run of mood_analyzer
\* ends there: it sends no alert (and touches neither store nor aggregator),
\* whatever the sentiment and score; so every alert ever sent carries the id
\* of a stored record.
C2_NoAlertWhenInsertFails ==
    /\ \A e \in EventInputs :
          (PassesFilter(e.chat, e.raw_text)
              /\ ~InsertCommits(store, e.unique_id, e.db_ok)) =>
             \A r \in { RunOn(e) } :
                /\ r.stage = "CLASSIFIED"
                /\ r.alerts = alerts
                /\ r.store = store
                /\ r.messages_data = messages_data
    /\ \A j \in 1..Len(alerts) :
          \E i \in 1..Len(store) : j \in AlertsFor(store[i].id)
    /\ Len(alerts) <= Len(store)

\* A strongly negative message can arrive while the database is down or
\* while uuid4 repeats the id of a stored record, in a state that already
\* holds a record and an alert
C2_Witness ==
    /\ Len(store) = 1 /\ Len(alerts) = 1
    /\ \E e \in EventInputs :
          /\ PassesFilter(e.chat, e.raw_text)
          /\ e.result.label = "SAD" /\ e.result.score > Threshold
          /\ ~e.db_ok
          /\ RunOn(e).stage = "CLASSIFIED"
    /\ \E e \in EventInputs :
          /\ PassesFilter(e.chat, e.raw_text)
          /\ e.result.label = "SAD" /\ e.result.score > Threshold
          /\ e.db_ok /\ e.unique_id \in StoreIds(store)
          /\ RunOn(e).stage = "CLASSIFIED"

\* C3: every CallbackQuery handled by handle_feedback is acknowledged:
\* event.answer is called whatever the payload and whatever the store does.
C3_AlwaysAcknowledged ==
    \A c \in CallbackInputs : FeedbackOn(c).answered

\* The expected encoding: label_negative:<id> or label_not_negative:<id>
WellFormed(data) ==
    \E a \in {label_negative, label_not_negative}, u \in Ids :
        data = ButtonData(a, u)

\* C4: a payload that does not decode to the expected encoding changes the
\* label of no record.
C4_MalformedChangesNoLabel ==
    \A c \in CallbackInputs :
        ~WellFormed(c.data) => FeedbackOn(c).store = store

\* C5: update_feedback_in_dataset with an id that matches no record reports
\* RecordNotFound to its caller and leaves every record unchanged.
C5_UnknownIdReported ==
    \A u \in Ids \ StoreIds(store), l \in Labels :
        /\ update_feedback_in_dataset(store, IdText(u), l) = store
        /\ UpdateResult(store, IdText(u)) = "RecordNotFound"

\* C6: update_feedback_in_dataset with the id of an existing record changes
\* only that record's label: its text, sentiment, score and timestamp are
\* unchanged and so is every other record.
C6_UpdateChangesOnlyLabel ==
    \A u \in StoreIds(store), l \in Labels :
        LET after == update_feedback_in_dataset(store, IdText(u), l)
        IN  /\ Len(after) = Len(store)
            /\ \A i \in 1..Len(store) :
                  IF store[i].id = u
                  THEN /\ after[i].label = l
                       /\ after[i].id = store[i].id
                       /\ after[i].message_text = store[i].message_text
                       /\ after[i].sentiment = store[i].sentiment
                       /\ after[i].score = store[i].score
                       /\ after[i].timestamp = store[i].timestamp
                  ELSE after[i] = store[i]

\* Two records, the first one labelled by feedback and the second one not,
\* inserted on different days
C6_Witness ==
    /\ Len(store) = 2
    /\ store[1].label \in Labels
    /\ store[2].label = None
    /\ store[1].timestamp # store[2].timestamp

\* C7 as claimed: for each alert the label of the alerted record is updated
\* exactly once, however many interactions on that alert are handled.
C7_ExactlyOncePerAlert ==
    \A i \in 1..Len(alerts) : hist[i].handled >= 1 => hist[i].updated = 1

\* C7 as amended: each handled interaction on an alert updates the alerted
\* record exactly once, so the record is updated as many times as
\* interactions on its alert were handled.
C7_OncePerInteraction ==
    /\ \A i \in 1..Len(alerts) : hist[i].updated = hist[i].handled
    /\ \A c \in CallbackInputs :
          (c.msg # 0 /\ c.db_ok) =>
             \A r \in { FeedbackOn(c) } :
                /\ r.rowcount = 1
                /\ \E k \in 1..Len(store) :
                      /\ c.msg \in AlertsFor(store[k].id)
                      /\ r.store = [store EXCEPT ![k].label = r.label]

\* Two interactions on one alert were handled before its message was deleted
C7_Witness ==
    \E i \in 1..Len(alerts) :
        /\ hist[i].handled = 2
        /\ alerts[i].status = "shown"

UniqueIds ==
    \A i, j \in 1..Len(store) : store[i].id = store[j].id => i = j

\* What a step may do to the table: keep every row, at its place, with every
\* field but label as it was
RowsKept ==
    /\ Len(store') >= Len(store)
    /\ \A i \in 1..Len(store) :
          store'[i] = [store[i] EXCEPT !.label = store'[i].label]

\* C8: in every reachable state no two records share an id, and no step
\* removes a record or changes a field of an existing record other than
\* label.
C8_StoreInvariant == [](UniqueIds) /\ [][RowsKept]_vars

\* Two records, the first of them with a label set after its insertion
C8_Witness ==
    /\ Len(store) = 2
    /\ store[1].label \in Labels
    /\ store[1].id # store[2].id

\* C9: when the classifier raises, analyze_sentiment yields (ERROR, 0.0) and
\* the handler goes on: provided the INSERT commits, the message is stored
\* with sentiment ERROR and score 0, ERROR is appended to today's bucket, and
\* no alert is sent.
C9_ClassifierFailureIsIngested ==
    /\ analyze_sentiment(Raise) = <<"ERROR", 0>>
    /\ \A e \in EventInputs :
          (PassesFilter(e.chat, e.raw_text) /\ e.result.raised) =>
             \A r \in { RunOn(e) } :
             LET bucket == IF now \in DOMAIN messages_data
                           THEN messages_data[now] ELSE <<>>
             IN  /\ r.alerts = alerts
                 /\ InsertCommits(store, e.unique_id, e.db_ok) =>
                       /\ r.stage = "PERSISTED"
                       /\ Len(r.store) = Len(store) + 1
                       /\ r.store[Len(r.store)].id = e.unique_id
                       /\ r.store[Len(r.store)].sentiment = "ERROR"
                       /\ r.store[Len(r.store)].score = 0
                       /\ now \in DOMAIN r.messages_data
                       /\ r.messages_data[now] = Append(bucket, "ERROR")
    /\ \A i \in 1..Len(store) :
          store[i].sentiment = "ERROR" => AlertsFor(store[i].id) = {}

\* A record with sentiment ERROR, counted in the bucket of its day, without
\* an alert, stored after another message of that day
C9_Witness ==
    /\ Len(store) = 2
    /\ store[2].sentiment = "ERROR"
    /\ store[2].timestamp \in DOMAIN messages_data
    /\ Len(messages_data[store[2].timestamp]) = 2
    /\ messages_data[store[2].timestamp][2] = "ERROR"
    /\ AlertsFor(store[2].id) = {}

\* The summaries of day `day` that were sent with a chart
SummariesOf(day) ==
    { i \in 1..Len(reports) :
        reports[i].report.kind = "summary" /\ reports[i].report.day = day }

\* The column of day `day` in the chart
ChartColumn(day) ==
    CHOOSE k \in 1..Len(chart.dates) : chart.dates[k] = day

\* The counts of a report sum to the bucket's size, and the neutral count is
\* the residual: every entry that is neither POSITIVE nor NEGATIVE, the ERROR
\* entries among them.
C10_CountsSumToBucket ==
    \A day \in DOMAIN messages_data : \A i \in SummariesOf(day) :
        LET bucket == messages_data[day]
            counts == reports[i].report.counts
        IN  /\ counts.Positive + counts.Neutral + counts.Negative = Len(bucket)
            /\ counts.Positive = Count(bucket, "POSITIVE")
            /\ counts.Negative = Count(bucket, "NEGATIVE")
            /\ counts.Neutral = Count(bucket, "NEUTRAL") + Count(bucket, "ERROR")

\* The three percentages the chart plots for a day sum to 100.0.
C10_PercentagesSumTo100 ==
    \A day \in DOMAIN messages_data :
        SummariesOf(day) # {} =>
            LET k == ChartColumn(day)
            IN  FAdd(FAdd(chart.positive[k], chart.neutral[k]),
                     chart.negative[k]) = Float(100)

\* C10: for every day's bucket of size n > 0, whatever its mixture of
\* POSITIVE, NEUTRAL, NEGATIVE and ERROR entries, the shares of the report
\* and of the chart sum exactly to the whole: the counts to n, the
\* percentages to 100, with neutral the residual that takes every ERROR entry.
C10_SharesSumToWhole ==
    C10_CountsSumToBucket /\ C10_PercentagesSumTo100

\* A summary of a bucket of three entries, one of each of POSITIVE, NEGATIVE
\* and ERROR, has been sent.
C10_Witness ==
    \E day \in DOMAIN messages_data :
        /\ SummariesOf(day) # {}
        /\ Len(messages_data[day]) = 3
        /\ \A s \in {"POSITIVE", "NEGATIVE", "ERROR"} :
              Count(messages_data[day], s) = 1

\* C11: in a report cycle the summary sends one message: with no entry for
\* yesterday in the aggregator the "No data" message, and no chart is
\* rendered; with an entry the counts report, and the chart is rendered.
C11_NoDataOrReport ==
    sched.pc = "summary" =>
        \A r \in { daily_mood_summary_run(messages_data, now - 1) } :
            /\ Len(r.sent) = 1
            /\ IF (now - 1) \in DOMAIN messages_data
                   /\ messages_data[now - 1] # <<>>
               THEN /\ r.sent[1].kind = "summary"
                    /\ r.sent[1].day = now - 1
                    /\ ~r.chart.raised
                    /\ r.chart.dates = sorted(DOMAIN messages_data)
               ELSE /\ r.sent[1] = NoDataReport(now - 1)
                    /\ r.chart = chart

\* Both kinds of cycle have run: a "No data" message and a counts report
\* have been sent.
C11_Witness ==
    /\ \E i \in 1..Len(reports) : reports[i].report.kind = "nodata"
    /\ \E i \in 1..Len(reports) : reports[i].report.kind = "summary"

\* C12: only a message of the monitored group with a non-empty text gets
\* past RECEIVED: a message of any other chat, the admin group among them,
\* or with an empty text is not classified, inserts no record, appends to
\* no bucket and sends no alert.
C12_OnlyMonitoredGroup ==
    \A e \in EventInputs :
        (e.chat # group_id \/ e.raw_text = <<>>) =>
            \A r \in { RunOn(e) } :
                /\ r.stage = "RECEIVED"
                /\ r.store = store
                /\ r.messages_data = messages_data
                /\ r.alerts = alerts

\* C13: a report whose send failed does not end the scheduler: its loop is
\* still running, asleep until the next midnight or in a later cycle.
C13_SchedulerSurvivesFailedSend ==
    (\E i \in 1..Len(reports) : ~reports[i].delivered) =>
        sched.pc \in {"sleep", "loop", "summary"}

\* C14: preprocess_text is idempotent: a text it has produced is a text it
\* leaves as it is.
C14_PreprocessIdempotent ==
    input.passes >= 1 => preprocess_text(input.value) = input.value

\* The sentiments of the records inserted on day d, in insertion order
SentimentsOfDay(d) ==
    LET rows == SelectSeq(store, LAMBDA row : row.timestamp = d)
    IN  [i \in 1..Len(rows) |-> rows[i].sentiment]

RECURSIVE Entries(_, _)
Entries(md, days) ==
    IF days = {} THEN 0
    ELSE LET d == CHOOSE x \in days : TRUE
         IN  Len(md[d]) + Entries(md, days \ {d})

\* C15: whatever the handlers and the scheduler have done, and however the
\* alert sends ended, the aggregator agrees with the store: the bucket of a
\* day holds the sentiments of the records inserted on that day, one entry
\* per record and in their order, so that the buckets together hold as many
\* entries as the store holds records; a message whose insert fails adds
\* no entry.
C15_AggregatorMatchesStore ==
    /\ \A d \in DOMAIN messages_data : messages_data[d] = SentimentsOfDay(d)
    /\ \A i \in 1..Len(store) : store[i].timestamp \in DOMAIN messages_data
    /\ Entries(messages_data, DOMAIN messages_data) = Len(store)
    /\ \A e \in EventInputs :
          ~InsertCommits(store, e.unique_id, e.db_ok) =>
              RunOn(e).messages_data = messages_data

\* Two records inserted on different days, an alert whose send failed and
\* a report of the scheduler.
C15_Witness ==
    /\ Len(store) = 2
    /\ store[1].timestamp # store[2].timestamp
    /\ \E j \in 1..Len(alerts) : alerts[j].status = "failed"
    /\ \E i \in 1..Len(reports) : reports[i].report.kind = "summary"

\* The report cycles run for day d as "yesterday"
CyclesFor(d) == { i \in 1..Len(reports) : reports[i].report.day = d }

\* No day is reported twice.
C16_NoDayTwice ==
    \A i, j \in 1..Len(reports) :
        reports[i].report.day = reports[j].report.day => i = j

\* Once the loop is asleep and its timer not due, every day that has ended
\* since the first cycle has had a cycle.
C16_NoDaySkipped ==
    (sched.pc = "sleep" /\ now < sched.next_run) =>
        \A d \in reports[1].report.day..(now - 1) : CyclesFor(d) # {}

\* C16: while no send fails (and a cycle takes less than a day, as the
\* clock has it), every day that ends while the scheduler runs gets exactly
\* one report cycle: none is skipped and none is reported twice.
C16_OneCyclePerEndedDay ==
    (\A i \in 1..Len(reports) : reports[i].delivered) =>
        C16_NoDayTwice /\ C16_NoDaySkipped

\* C17: a bucket changes only while its day is the current day: a step that
\* creates a bucket or changes one does so for today's and leaves every
\* other bucket as it was, whatever the scheduler has read and whichever
\* handler is still waiting for its alert to be sent.
C17_BucketFrozen ==
    [][/\ DOMAIN messages_data \subseteq DOMAIN messages_data'
       /\ \A d \in DOMAIN messages_data' :
             (d \notin DOMAIN messages_data
                 \/ messages_data'[d] # messages_data[d]) =>
                 d = now /\ now' = now]_vars

\* On day 1 the scheduler has reported day 0, a handler of a message of day
\* 0 still waits for its alert to be sent, and day 1 has a bucket.
C17_Witness ==
    /\ now = 1
    /\ CyclesFor(0) # {}
    /\ 0 \in DOMAIN messages_data
    /\ 1 \in DOMAIN messages_data
    /\ \E i \in 1..Len(store) : \E j \in AlertsFor(store[i].id) :
          store[i].timestamp = 0 /\ alerts[j].status = "sending"


\* C18: pressing either button of an alert updates exactly the record that
\* the handler inserted under the id the alert carries, with label negative
\* for the first button (Negative) and not_negative for the second (Not
\* Negative), whatever id uuid4 gave the record.
C18_TokenRoundTrip ==
    /\ \A i \in 1..Len(alerts) : \A b \in 1..2 :
          \A r \in { handle_feedback_run(alerts[i].buttons[b], i, TRUE) } :
             /\ r.unique_id = IdText(store[hist[i].row].id)
             /\ r.label = (IF b = 1 THEN "negative" ELSE "not_negative")
             /\ r.rowcount = 1
             /\ r.store = [store EXCEPT ![hist[i].row].label = r.label]
    /\ \A e \in EventInputs : \A m \in { RunOn(e) } :
          m.stage = "ALERTED" =>
             /\ m.store[Len(m.store)].id = e.unique_id
             /\ m.hist[Len(m.hist)].row = Len(m.store)
             /\ m.alerts[Len(m.alerts)].buttons =
                    << ButtonData(label_negative, e.unique_id),
                       ButtonData(label_not_negative, e.unique_id) >>

\* Alerts were sent for records under two different ids, and the Not
\* Negative button of one of them was pressed
C18_Witness ==
    /\ \E i, j \in 1..Len(alerts) :
          store[hist[i].row].id # store[hist[j].row].id
    /\ \E i \in 1..Len(alerts) :
          /\ hist[i].handled >= 1
          /\ store[hist[i].row].label = "not_negative"

\* C19: every bucket of the aggregator has at least one entry: the handler
\* makes a bucket only by appending to it and the summary's test for
\* yesterday makes none, so the chart, which divides by the length of every
\* bucket, never divides by zero.
C19_NoEmptyBucket ==
    /\ \A d \in DOMAIN messages_data : Len(messages_data[d]) > 0
    /\ ~generate_mood_chart(messages_data).raised
    /\ ~chart.raised
    /\ sched.pc = "summary" =>
          DOMAIN daily_mood_summary_run(messages_data, now - 1).messages_data
              = DOMAIN messages_data

\* The summary has tested for a day that has no bucket and said "No data",
\* and a later summary has rendered the chart of the buckets there are
C19_Witness ==
    \E i, j \in 1..Len(reports) :
        /\ i < j
        /\ reports[i].report.kind = "nodata"
        /\ reports[i].report.day \notin DOMAIN messages_data
        /\ reports[j].report.kind = "summary"
        /\ chart.dates # <<>>

\* The alerts that were delivered for the record of row k
SentFor(k) ==
    { i \in 1..Len(alerts) :
        hist[i].row = k /\ alerts[i].status \in {"shown", "deleted"} }

\* C20: when every query comes from a button of a sent alert, a record has
\* a label only if an alert was sent for it, hence only if its sentiment is
\* NEGATIVE and its score is above 0.6; the handler inserts every record,
\* alerted or not, without a label.
C20_LabelOnlyIfAlerted ==
    /\ \A k \in 1..Len(store) :
          store[k].label # None =>
             /\ SentFor(k) # {}
             /\ store[k].sentiment = "NEGATIVE"
             /\ store[k].score > Threshold
    /\ \A e \in EventInputs : \A m \in { RunOn(e) } :
          /\ SubSeq(m.store, 1, Len(store)) = store
          /\ \A k \in (Len(store) + 1)..Len(m.store) :
                m.store[k].label = None

\* A button of a sent alert was pressed and its record has a label, while a
\* record that was not alerted has none
C20_Witness ==
    \E k, u \in 1..Len(store) :
        /\ store[k].label # None
        /\ \E i \in SentFor(k) : hist[i].handled >= 1
        /\ store[u].label = None
        /\ store[u].sentiment # "NEGATIVE"

====
